---- MODULE Spec2Model ----
(***************************************************************************)
(* Model of auto_cover_art.py: a sequential pipeline that checks an audio  *)
(* file for cover art, fingerprints it (fpcalc), looks the fingerprint up  *)
(* (AcoustID), resolves a cover image per candidate release (Cover Art     *)
(* Archive), downloads it and embeds it with the tag library.              *)
(*                                                                         *)
(* The external processes, services and the tag library are the            *)
(* environment: each action draws their answer from a bounded set and      *)
(* then does what the code does with it.                                   *)
(***************************************************************************)
EXTENDS Integers, Sequences, FiniteSets, TLC

(***************************************************************************)
(* Bounds of the model                                                     *)
(***************************************************************************)
\* nodes (results + recordings + releases) of one AcoustID response
MaxNodes == 6
\* images in one Cover Art Archive response
MaxImages == 3
\* pictures already embedded in the input file
MaxPics == 1

(***************************************************************************)
(* Values                                                                  *)
(***************************************************************************)
\* Python's None, for strings (URLs, payloads, ids, messages)
None == "None"
\* picture type 3, "Cover (front)"
FrontCover == 3

Urls == {"U1", "U2"}
\* what download_image can return on success; "" is an empty body
Bodies == {"", "B1", "B2"}

Info(m, a) == [level |-> "INFO", msg |-> m, arg |-> a]
Warn(m, a) == [level |-> "WARNING", msg |-> m, arg |-> a]
Err(m, a) == [level |-> "ERROR", msg |-> m, arg |-> a]

(***************************************************************************)
(* The audio file, as the tag library reads it                             *)
(*   kind  : what MutagenFile returns: MP4, FLAC, an ID3 file type, a      *)
(*           type with non-ID3 tags (e.g. Ogg), or None ("none");          *)
(*           "missing" is a path that does not exist                       *)
(*   tags  : "absent" (audio.tags is None) or "present"                    *)
(*   title : a non-picture entry in the tag container                      *)
(*   pics  : the embedded pictures, in order                               *)
(***************************************************************************)
\* a picture that is in the file before the run: a PNG back cover
OldPic == [data |-> "B0", mime |-> "image/png", type |-> 4, desc |-> "Back"]

RECURSIVE OldPics(_)
OldPics(n) == IF n = 0 THEN <<>> ELSE Append(OldPics(n - 1), OldPic)

PicLists == {OldPics(n) : n \in 0..MaxPics}

AudioFile(k, t, ti, p) == [kind |-> k, tags |-> t, title |-> ti, pics |-> p]

MissingFile == AudioFile("missing", "absent", FALSE, <<>>)

Files ==
    \* MP4: the pictures are the 'covr' entry of the tags
    {AudioFile("mp4", "absent", FALSE, <<>>)}
    \cup {AudioFile("mp4", "present", TRUE, p) : p \in PicLists}
    \* FLAC: the pictures are metadata blocks of their own
    \cup {AudioFile("flac", "present", TRUE, p) : p \in PicLists}
    \* ID3: the pictures are APIC frames of the tag
    \cup {AudioFile("id3", "absent", FALSE, <<>>)}
    \cup {AudioFile("id3", "present", ti, p) : ti \in BOOLEAN, p \in PicLists}
    \* a type whose tags are not ID3
    \cup {AudioFile("ogg", t, t = "present", <<>>) : t \in {"absent", "present"}}
    \* a file the tag library does not recognise
    \cup {AudioFile("none", "absent", FALSE, <<>>)}

SupportedKinds == {"mp4", "flac", "id3"}

\* bool(audio.tags): None and an empty container are both falsy
TagsTruthy(f) ==
    /\ f.tags = "present"
    /\ \/ f.title
       \/ (f.kind \in {"mp4", "id3"} /\ f.pics # <<>>)

(***************************************************************************)
(* has_cover_art: what ffprobe can answer for a file                       *)
(***************************************************************************)
\* "attached": a stream with disposition.attached_pic; "none": no such
\* stream; "error": ffprobe is missing or its output does not parse
ProbeOutcomes(f) ==
    IF f.pics # <<>> THEN {"attached", "none", "error"} ELSE {"none", "error"}

\* has_cover_art that never finds the flag
has_cover_art_blind(probe) ==
    IF probe = "error"
    THEN [ret |-> FALSE, log |-> <<Err("Error checking cover art", None)>>]
    ELSE [ret |-> FALSE, log |-> <<>>]

has_cover_art(probe) ==
    CASE probe = "attached" -> [ret |-> TRUE, log |-> <<>>]
      [] probe = "none" -> [ret |-> FALSE, log |-> <<>>]
      [] OTHER -> [ret |-> FALSE, log |-> <<Err("Error checking cover art", None)>>]

(***************************************************************************)
(* run_fpcalc                                                              *)
(***************************************************************************)
\* stands for None where the code holds an int
NoDuration == 0 - 1

\* the 'duration' field of fpcalc's JSON: missing, a float below 1, a float,
\* or a string that is no number
RawDurations == {"missing", "0.4", "120.5", "abc"}

FpcalcOutputs ==
    {[kind |-> k, fingerprint |-> None, duration |-> "missing"] :
        k \in {"exit_fail", "not_found", "os_error", "bad_json", "not_object"}}
    \cup {[kind |-> "json", fingerprint |-> fp, duration |-> d] :
            fp \in {None, "", "FP"}, d \in RawDurations}

\* int(data.get('duration', 0)); "abc" raises ValueError
IntOfDuration(d) ==
    CASE d = "missing" -> 0
      [] d = "0.4" -> 0
      [] d = "120.5" -> 120
      [] OTHER -> NoDuration

\* run_fpcalc without the except clause for json.JSONDecodeError
run_fpcalc_no_json_clause(out) ==
    CASE out.kind = "exit_fail" ->
            [raised |-> FALSE, fingerprint |-> None, duration |-> NoDuration,
             log |-> <<Err("fpcalc failed", None)>>]
      [] out.kind = "not_found" ->
            [raised |-> FALSE, fingerprint |-> None, duration |-> NoDuration,
             log |-> <<Err("fpcalc not found. Please install chromaprint.", None)>>]
      [] out.kind \in {"bad_json", "os_error", "not_object"} ->
            [raised |-> TRUE, fingerprint |-> None, duration |-> NoDuration, log |-> <<>>]
      [] out.kind = "json" /\ out.duration = "abc" ->
            [raised |-> TRUE, fingerprint |-> None, duration |-> NoDuration, log |-> <<>>]
      [] OTHER ->
            [raised |-> FALSE, fingerprint |-> out.fingerprint,
             duration |-> IntOfDuration(out.duration), log |-> <<>>]

run_fpcalc(out) ==
    CASE out.kind = "exit_fail" ->
            [raised |-> FALSE, fingerprint |-> None, duration |-> NoDuration,
             log |-> <<Err("fpcalc failed", None)>>]
      [] out.kind = "not_found" ->
            [raised |-> FALSE, fingerprint |-> None, duration |-> NoDuration,
             log |-> <<Err("fpcalc not found. Please install chromaprint.", None)>>]
      [] out.kind = "bad_json" ->
            [raised |-> FALSE, fingerprint |-> None, duration |-> NoDuration,
             log |-> <<Err("Failed to parse fpcalc output", None)>>]
      \* an OSError other than FileNotFoundError: no except clause matches
      [] out.kind = "os_error" ->
            [raised |-> TRUE, fingerprint |-> None, duration |-> NoDuration, log |-> <<>>]
      \* valid JSON that is no object: data.get raises AttributeError
      [] out.kind = "not_object" ->
            [raised |-> TRUE, fingerprint |-> None, duration |-> NoDuration, log |-> <<>>]
      \* int("abc") raises ValueError
      [] out.kind = "json" /\ out.duration = "abc" ->
            [raised |-> TRUE, fingerprint |-> None, duration |-> NoDuration, log |-> <<>>]
      [] OTHER ->
            [raised |-> FALSE, fingerprint |-> out.fingerprint,
             duration |-> IntOfDuration(out.duration), log |-> <<>>]

\* 'not fingerprint or not duration'
FingerprintMissing(r) ==
    \/ r.fingerprint \in {None, ""}
    \/ r.duration \in {NoDuration, 0}

(***************************************************************************)
(* The AcoustID response: results -> recordings -> releases                *)
(* A node of shape "junk" is a JSON value that is not an object.           *)
(***************************************************************************)
NoId == "NoId"

Release(id) == [shape |-> "object", id |-> id]
Recording(rels) == [shape |-> "object", releases |-> rels]
Result(recs) == [shape |-> "object", recordings |-> recs]
JunkResult == [shape |-> "junk", recordings |-> <<>>]

\* a release with an id, or with none ('id' missing, null or "")
ReleaseVals == {Release("r1"), Release(NoId)}

\* every list of releases with n nodes
ReleaseLists(n) == [1..n -> ReleaseVals]

\* every recording with n nodes: itself and n-1 releases
Recordings(n) == {Recording(rl) : rl \in ReleaseLists(n - 1)}

RECURSIVE RecordingLists(_)
RecordingLists(n) ==
    IF n = 0 THEN {<<>>}
    ELSE UNION {{<<r>> \o rest : r \in Recordings(k), rest \in RecordingLists(n - k)} :
                    k \in 1..n}

Results(n) ==
    (IF n = 1 THEN {JunkResult} ELSE {})
    \cup {Result(rl) : rl \in RecordingLists(n - 1)}

RECURSIVE ResultLists(_)
ResultLists(n) ==
    IF n = 0 THEN {<<>>}
    ELSE UNION {{<<r>> \o rest : r \in Results(k), rest \in ResultLists(n - k)} :
                    k \in 1..n}

LookupResults == UNION {ResultLists(n) : n \in 0..MaxNodes}

(***************************************************************************)
(* lookup_acoustid                                                         *)
(***************************************************************************)
\* the 'error' member of a response: missing, an object without 'message',
\* or an object with the message "m1"
ErrorMembers == {"missing", "no_message", "m1"}

AcoustidResponses ==
    \* the request fails, times out, or the body is no JSON object
    {[kind |-> "exception", status |-> None, error |-> "missing", results |-> <<>>]}
    \cup {[kind |-> "json", status |-> "ok", error |-> "missing", results |-> rs] :
            rs \in LookupResults}
    \* a status other than "ok" ('status' missing is None), with or
    \* without a 'results' member
    \cup {[kind |-> "json", status |-> st, error |-> e, results |-> rs] :
            st \in {"error", None}, e \in ErrorMembers,
            rs \in {<<>>, <<Result(<<Recording(<<Release("r1")>>)>>)>>}}

\* data.get('error', {}).get('message')
ErrorMessage(e) == IF e \in {"missing", "no_message"} THEN None ELSE e

\* lookup_acoustid that does not look at the status
lookup_acoustid_any_status(resp) ==
    IF resp.kind = "exception"
    THEN [results |-> <<>>, log |-> <<Err("Failed to query AcoustID", None)>>]
    ELSE [results |-> resp.results, log |-> <<>>]

lookup_acoustid(resp) ==
    IF resp.kind = "exception"
    THEN [results |-> <<>>, log |-> <<Err("Failed to query AcoustID", None)>>]
    ELSE IF resp.status = "ok"
    THEN [results |-> resp.results, log |-> <<>>]
    ELSE [results |-> <<>>,
          log |-> <<Err("AcoustID error", ErrorMessage(resp.error))>>]

(***************************************************************************)
(* The nested loops of process_file, as the sequence of what they meet:    *)
(* a candidate release (with its position) or a node that is no object,    *)
(* on which .get raises AttributeError.                                    *)
(***************************************************************************)
Cand(i, j, k) == [kind |-> "cand", pos |-> <<i, j, k>>]
Raise(i) == [kind |-> "raise", pos |-> <<i, 0, 0>>]

\* the innermost loop with 'break' for 'continue' on a release without id
RECURSIVE ReleaseEventsBreak(_, _, _, _)
ReleaseEventsBreak(rels, i, j, k) ==
    IF k > Len(rels) THEN <<>>
    ELSE IF rels[k].id = NoId THEN <<>>
    ELSE <<Cand(i, j, k)>> \o ReleaseEventsBreak(rels, i, j, k + 1)

RECURSIVE ReleaseEvents(_, _, _, _)
ReleaseEvents(rels, i, j, k) ==
    IF k > Len(rels) THEN <<>>
    ELSE IF rels[k].id = NoId THEN ReleaseEvents(rels, i, j, k + 1)
    ELSE <<Cand(i, j, k)>> \o ReleaseEvents(rels, i, j, k + 1)

RECURSIVE RecordingEvents(_, _, _)
RecordingEvents(recs, i, j) ==
    IF j > Len(recs) THEN <<>>
    ELSE ReleaseEvents(recs[j].releases, i, j, 1) \o RecordingEvents(recs, i, j + 1)

RECURSIVE ResultEvents(_, _)
ResultEvents(rs, i) ==
    IF i > Len(rs) THEN <<>>
    ELSE IF rs[i].shape = "junk" THEN <<Raise(i)>>
    ELSE RecordingEvents(rs[i].recordings, i, 1) \o ResultEvents(rs, i + 1)

Events(rs) == ResultEvents(rs, 1)

(***************************************************************************)
(* get_cover_art_url                                                       *)
(***************************************************************************)
Image(front, url) == [front |-> front, image |-> url]

\* 'front' missing is falsy; 'image' missing is None
ImageVals == {Image(f, u) : f \in BOOLEAN, u \in Urls \cup {None}}

ImageLists == UNION {[1..n -> ImageVals] : n \in 0..MaxImages}

\* for img in images: if img.get('front'): return img.get('image')
RECURSIVE FirstFront(_, _)
FirstFront(images, i) ==
    IF i > Len(images) THEN [found |-> FALSE, url |-> None]
    ELSE IF images[i].front THEN [found |-> TRUE, url |-> images[i].image]
    ELSE FirstFront(images, i + 1)

\* the selection without the fallback to the first image
SelectImageFrontOnly(images) ==
    LET ff == FirstFront(images, 1)
    IN  IF ff.found THEN ff.url ELSE None

SelectImage(images) ==
    LET ff == FirstFront(images, 1)
    IN  IF ff.found THEN ff.url
        ELSE IF images # <<>> THEN images[1].image
        ELSE None

ArtResponses ==
    {[kind |-> k, images |-> <<>>] : k \in {"http404", "http_error", "exception"}}
    \cup {[kind |-> "json", images |-> im] : im \in ImageLists}

\* get_cover_art_url that treats 404 like every other HTTP error
get_cover_art_url_404_error(resp) ==
    CASE resp.kind = "json" -> [url |-> SelectImage(resp.images), log |-> <<>>]
      [] resp.kind \in {"http404", "http_error"} ->
            [url |-> None, log |-> <<Err("HTTP error fetching cover art", None)>>]
      [] OTHER ->
            [url |-> None, log |-> <<Err("Failed to fetch cover art URL", None)>>]

get_cover_art_url(resp) ==
    CASE resp.kind = "json" -> [url |-> SelectImage(resp.images), log |-> <<>>]
      [] resp.kind = "http404" ->
            [url |-> None, log |-> <<Warn("No cover art found for release", None)>>]
      [] resp.kind = "http_error" ->
            [url |-> None, log |-> <<Err("HTTP error fetching cover art", None)>>]
      [] OTHER ->
            [url |-> None, log |-> <<Err("Failed to fetch cover art URL", None)>>]

(***************************************************************************)
(* download_image                                                          *)
(***************************************************************************)
DownloadResponses == {"exception"} \cup Bodies

download_image(resp) ==
    IF resp = "exception"
    THEN [data |-> None, log |-> <<Err("Failed to download image", None)>>]
    ELSE [data |-> resp, log |-> <<>>]

(***************************************************************************)
(* embed_cover_art                                                         *)
(***************************************************************************)
MP4Cover(data) == [data |-> data, mime |-> "image/jpeg", type |-> FrontCover, desc |-> ""]
Picture(data) == [data |-> data, mime |-> "image/jpeg", type |-> FrontCover, desc |-> ""]
APIC(data) == [data |-> data, mime |-> "image/jpeg", type |-> FrontCover, desc |-> "Cover"]

\* The branch on the container type, on the object in memory: the changed
\* object, or the exception a statement of the branch raises.
Retag(f, data) ==
    CASE f.kind = "mp4" ->
            \* audio.tags is None for a file without tags: item assignment
            \* on None raises TypeError
            IF f.tags = "absent"
            THEN [exc |-> "TypeError", audio |-> f]
            ELSE [exc |-> None, audio |-> [f EXCEPT !.pics = <<MP4Cover(data)>>]]
      [] f.kind = "flac" ->
            [exc |-> None, audio |-> [f EXCEPT !.pics = <<Picture(data)>>]]
      [] OTHER ->
            \* 'if not audio.tags: audio.add_tags()': add_tags raises when
            \* the (empty) container exists
            IF ~TagsTruthy(f) /\ f.tags = "present"
            THEN [exc |-> "error", audio |-> f]
            \* tags that are not ID3 have no delall
            ELSE IF f.kind # "id3"
            THEN [exc |-> "AttributeError", audio |-> [f EXCEPT !.tags = "present"]]
            ELSE [exc |-> None,
                  audio |-> [f EXCEPT !.tags = "present", !.pics = <<APIC(data)>>]]

\* embed_cover_art whose failing save has already written the file
embed_cover_art_partial_save(f, data, saveOK) ==
    IF f.kind = "none"
    THEN [ret |-> FALSE, file |-> f, log |-> <<Err("Unsupported file format", None)>>]
    ELSE LET r == Retag(f, data)
         IN  IF r.exc # None
             THEN [ret |-> FALSE, file |-> f,
                   log |-> <<Err("Failed to embed cover art", r.exc)>>]
             ELSE IF ~saveOK
             THEN [ret |-> FALSE, file |-> r.audio,
                   log |-> <<Err("Failed to embed cover art", "save")>>]
             ELSE [ret |-> TRUE, file |-> r.audio,
                   log |-> <<Info("Successfully embedded cover art", None)>>]

\* saveOK: whether audio.save() writes the file; when it raises the file is
\* as it was
embed_cover_art(f, data, saveOK) ==
    IF f.kind = "none"
    THEN [ret |-> FALSE, file |-> f, log |-> <<Err("Unsupported file format", None)>>]
    ELSE LET r == Retag(f, data)
         IN  IF r.exc # None
             THEN [ret |-> FALSE, file |-> f,
                   log |-> <<Err("Failed to embed cover art", r.exc)>>]
             ELSE IF ~saveOK
             THEN [ret |-> FALSE, file |-> f,
                   log |-> <<Err("Failed to embed cover art", "save")>>]
             ELSE [ret |-> TRUE, file |-> r.audio,
                   log |-> <<Info("Successfully embedded cover art", None)>>]

(***************************************************************************)
(* The program's state                                                     *)
(***************************************************************************)
VARIABLES
    pc,         \* where the process is
    apiKey,     \* whether ACOUSTID_API_KEY is set
    argv,       \* the command line, as argparse sees it
    file,       \* the audio file on disk
    file0,      \* the audio file as it was when the process started
    results,    \* the list lookup_acoustid returned
    ev,         \* how far the nested loops of process_file have come
    release,    \* position <<result, recording, release>> of the loops' release
    tried,      \* positions of the releases given to get_cover_art_url
    cover_url,  \* process_file's cover_url
    image_data, \* process_file's image_data
    retval,     \* what process_file returned: "none" while it runs
    exitCode,   \* the process's exit code: NoExit while it runs
    logged,     \* the records the last step logged
    called,     \* the functions process_file has called so far
    embedOKs,   \* how many embed_cover_art calls returned True
    env,        \* what the outside answered in the last step
    artResp     \* SpecResolve: the Cover Art Archive's response

vars == <<pc, apiKey, argv, file, file0, results, ev, release, tried, cover_url,
          image_data, retval, exitCode, logged, called, embedOKs, env, artResp>>

NoExit == 0 - 1

\* no arguments, -h, one file argument, or more than one argument
ArgvKinds == {"none", "help", "file", "extra"}

Heard(step, kind, status, error) ==
    [step |-> step, kind |-> kind, status |-> status, error |-> error]

\* before the loops bind 'release'
NoRelease == <<0, 0, 0>>

NoArtResp == [kind |-> "exception", images |-> <<>>]

Init ==
    /\ pc = "import"
    /\ apiKey \in BOOLEAN
    /\ argv \in ArgvKinds
    /\ file \in Files \cup {MissingFile}
    /\ file0 = file
    /\ results = <<>>
    /\ ev = 0
    /\ release = NoRelease
    /\ tried = <<>>
    /\ cover_url = None
    /\ image_data = None
    /\ retval = "none"
    /\ exitCode = NoExit
    /\ logged = <<>>
    /\ called = {}
    /\ embedOKs = 0
    /\ env = Heard("none", None, None, None)
    /\ artResp = NoArtResp

\* sys.exit(code) before process_file is called
Abort(code, log) ==
    /\ pc' = "exit"
    /\ exitCode' = code
    /\ logged' = log
    /\ UNCHANGED <<apiKey, argv, file, file0, results, ev, release, tried, cover_url,
                   image_data, retval, called, embedOKs, env, artResp>>

\* The module's top level: the API key is read, and the process ends
\* when it is not set.
Import ==
    /\ pc = "import"
    /\ IF ~apiKey
       THEN Abort(1, <<Err("AcoustID API key not found", None)>>)
       ELSE /\ pc' = "main"
            /\ UNCHANGED <<apiKey, argv, file, file0, results, ev, release, tried, cover_url,
                           image_data, retval, exitCode, logged, called, embedOKs,
                           env, artResp>>

\* parser.parse_args(): argparse ends the process with 0 after printing the
\* help and with 2 on a usage error
ParseArgs ==
    /\ pc = "main"
    /\ CASE argv = "file" ->
                /\ pc' = "exists"
                /\ UNCHANGED <<apiKey, argv, file, file0, results, ev, release, tried,
                               cover_url, image_data, retval, exitCode, logged,
                               called, embedOKs, env, artResp>>
         [] argv = "help" -> Abort(0, <<>>)
         [] OTHER -> Abort(2, <<>>)

\* the main block without the test for the file
CheckExistsNoTest ==
    /\ pc = "exists"
    /\ pc' = "has_cover"
    /\ UNCHANGED <<apiKey, argv, file, file0, results, ev, release, tried, cover_url,
                   image_data, retval, exitCode, logged, called, embedOKs,
                   env, artResp>>

\* os.path.exists(args.file)
CheckExists ==
    /\ pc = "exists"
    /\ IF file.kind = "missing"
       THEN Abort(1, <<Err("File not found", None)>>)
       ELSE /\ pc' = "has_cover"
            /\ UNCHANGED <<apiKey, argv, file, file0, results, ev, release, tried, cover_url,
                           image_data, retval, exitCode, logged, called, embedOKs,
                           env, artResp>>

\* process_file up to its first return or to the call of run_fpcalc
HasCoverArt ==
    /\ pc = "has_cover"
    /\ \E probe \in ProbeOutcomes(file) :
        LET r == has_cover_art(probe)
        IN  /\ env' = Heard("has_cover_art", probe, None, None)
            /\ called' = called \cup {"has_cover_art"}
            /\ IF r.ret
               THEN /\ retval' = "true"
                    /\ pc' = "sysexit"
                    /\ logged' = <<Info("Processing", None)>> \o r.log
                            \o <<Info("File already has cover art. Skipping.", None)>>
               ELSE /\ retval' = "none"
                    /\ pc' = "fpcalc"
                    /\ logged' = <<Info("Processing", None)>> \o r.log
                            \o <<Info("No cover art found. Analyzing with AcoustID...", None)>>
    /\ UNCHANGED <<apiKey, argv, file, file0, results, ev, release, tried, cover_url,
                   image_data, exitCode, embedOKs, artResp>>

\* the call of run_fpcalc and the test of what it returned
RunFpcalc ==
    /\ pc = "fpcalc"
    /\ \E out \in FpcalcOutputs :
        LET r == run_fpcalc(out)
        IN  /\ env' = Heard("run_fpcalc", out.kind, None, None)
            /\ called' = called \cup {"run_fpcalc"}
            /\ CASE r.raised ->
                        /\ retval' = "raised"
                        /\ pc' = "sysexit"
                        /\ logged' = r.log
                 [] ~r.raised /\ FingerprintMissing(r) ->
                        /\ retval' = "false"
                        /\ pc' = "sysexit"
                        /\ logged' = r.log \o <<Err("Failed to generate fingerprint", None)>>
                 [] OTHER ->
                        /\ retval' = "none"
                        /\ pc' = "lookup"
                        /\ logged' = r.log \o <<Info("Fingerprint generated", None)>>
    /\ UNCHANGED <<apiKey, argv, file, file0, results, ev, release, tried, cover_url,
                   image_data, exitCode, embedOKs, artResp>>

\* The nested loops from event n on, up to the next call of
\* get_cover_art_url, the AttributeError of a node that is no object, or
\* the end of the loops.
Advance(rs, n) ==
    LET E == Events(rs)
    IN  IF n + 1 > Len(E)
        THEN [pc |-> "sysexit", ev |-> n, release |-> NoRelease, retval |-> "false",
              log |-> <<Warn("No cover art could be found or embedded", None)>>]
        ELSE IF E[n + 1].kind = "raise"
        THEN [pc |-> "sysexit", ev |-> n + 1, release |-> NoRelease,
              retval |-> "raised", log |-> <<>>]
        ELSE [pc |-> "resolve", ev |-> n + 1, release |-> E[n + 1].pos, retval |-> "none",
              log |-> <<Info("Trying release", None)>>]

\* 'continue' in the innermost loop
Continue(log) ==
    LET a == Advance(results, ev)
    IN  /\ pc' = a.pc
        /\ ev' = a.ev
        /\ release' = (IF a.pc = "resolve" THEN a.release ELSE release)
        /\ retval' = a.retval
        /\ logged' = log \o a.log

\* the call of lookup_acoustid, the test of what it returned, and the loops
\* up to the first candidate release
LookupAcoustid ==
    /\ pc = "lookup"
    /\ \E resp \in AcoustidResponses :
        LET r == lookup_acoustid(resp)
            a == Advance(r.results, 0)
        IN  /\ env' = Heard("lookup_acoustid", resp.kind, resp.status, resp.error)
            /\ called' = called \cup {"lookup_acoustid"}
            /\ results' = r.results
            /\ IF r.results = <<>>
               THEN /\ retval' = "false"
                    /\ pc' = "sysexit"
                    /\ ev' = 0
                    /\ release' = release
                    /\ logged' = r.log \o <<Err("No AcoustID results found", None)>>
               ELSE /\ retval' = a.retval
                    /\ pc' = a.pc
                    /\ ev' = a.ev
                    /\ release' = (IF a.pc = "resolve" THEN a.release ELSE release)
                    /\ logged' = r.log \o <<Info("Found AcoustID result(s)", None)>> \o a.log
    /\ UNCHANGED <<apiKey, argv, file, file0, tried, cover_url, image_data,
                   exitCode, embedOKs, artResp>>

\* what get_cover_art_url can return, with the kind of response it is for
ArtOutcomes == {[kind |-> r.kind, out |-> get_cover_art_url(r)] : r \in ArtResponses}

\* the call of get_cover_art_url for the current release
GetCoverArtUrl ==
    /\ pc = "resolve"
    /\ \E o \in ArtOutcomes :
        /\ env' = Heard("get_cover_art_url", o.kind, None, None)
        /\ called' = called \cup {"get_cover_art_url"}
        /\ tried' = Append(tried, release)
        /\ cover_url' = o.out.url
        /\ IF o.out.url = None
           THEN Continue(o.out.log)
           ELSE /\ pc' = "download"
                /\ logged' = o.out.log \o <<Info("Found cover art URL", o.out.url)>>
                /\ UNCHANGED <<ev, release, retval>>
    /\ UNCHANGED <<apiKey, argv, file, file0, results, image_data, exitCode,
                   embedOKs, artResp>>

\* the call of download_image for the current release
DownloadImage ==
    /\ pc = "download"
    /\ \E resp \in DownloadResponses :
        LET r == download_image(resp)
        IN  /\ env' = Heard("download_image", IF resp = "exception" THEN resp ELSE "body",
                            None, None)
            /\ called' = called \cup {"download_image"}
            /\ image_data' = r.data
            /\ IF r.data \in {None, ""}
               THEN Continue(r.log)
               ELSE /\ pc' = "embed"
                    /\ logged' = r.log \o <<Info("Downloaded cover art", None)>>
                    /\ UNCHANGED <<ev, release, retval>>
    /\ UNCHANGED <<apiKey, argv, file, file0, results, tried, cover_url, exitCode,
                   embedOKs, artResp>>

\* the call of embed_cover_art for the current release
EmbedCoverArt ==
    /\ pc = "embed"
    /\ \E saveOK \in BOOLEAN :
        LET r == embed_cover_art(file, image_data, saveOK)
        IN  /\ env' = Heard("embed_cover_art", IF saveOK THEN "save_ok" ELSE "save_fails",
                            None, None)
            /\ called' = called \cup {"embed_cover_art"}
            /\ file' = r.file
            /\ IF r.ret
               THEN /\ retval' = "true"
                    /\ pc' = "sysexit"
                    /\ embedOKs' = embedOKs + 1
                    /\ logged' = r.log \o <<Info("Successfully added cover art!", None)>>
                    /\ UNCHANGED <<ev, release>>
               ELSE /\ embedOKs' = embedOKs
                    /\ Continue(r.log)
    /\ UNCHANGED <<apiKey, argv, file0, results, tried, cover_url, image_data,
                   exitCode, artResp>>

\* sys.exit(0 if success else 1); an exception that nothing catches ends
\* the interpreter with 1
SysExit ==
    /\ pc = "sysexit"
    /\ pc' = "exit"
    /\ exitCode' = IF retval = "true" THEN 0 ELSE 1
    /\ UNCHANGED <<apiKey, argv, file, file0, results, ev, release, tried, cover_url,
                   image_data, retval, logged, called, embedOKs, env, artResp>>

Next ==
    \/ Import
    \/ ParseArgs
    \/ CheckExists
    \/ HasCoverArt
    \/ RunFpcalc
    \/ LookupAcoustid
    \/ GetCoverArtUrl
    \/ DownloadImage
    \/ EmbedCoverArt
    \/ SysExit

Spec == Init /\ [][Next]_vars

(***************************************************************************)
(* get_cover_art_url on its own: one call for every response of the        *)
(* Cover Art Archive                                                       *)
(***************************************************************************)
InitResolve ==
    /\ pc = "resolve_call"
    /\ artResp \in ArtResponses
    /\ apiKey = TRUE
    /\ argv = "file"
    /\ file = AudioFile("id3", "absent", FALSE, <<>>)
    /\ file0 = file
    /\ results = <<>>
    /\ ev = 0
    /\ release = NoRelease
    /\ tried = <<>>
    /\ cover_url = None
    /\ image_data = None
    /\ retval = "none"
    /\ exitCode = NoExit
    /\ logged = <<>>
    /\ called = {}
    /\ embedOKs = 0
    /\ env = Heard("none", None, None, None)

ResolveCall ==
    /\ pc = "resolve_call"
    /\ pc' = "resolve_ret"
    /\ cover_url' = get_cover_art_url(artResp).url
    /\ logged' = get_cover_art_url(artResp).log
    /\ called' = called \cup {"get_cover_art_url"}
    /\ env' = Heard("get_cover_art_url", artResp.kind, None, None)
    /\ UNCHANGED <<apiKey, argv, file, file0, results, ev, release, tried,
                   image_data, retval, exitCode, embedOKs, artResp>>

NextResolve == ResolveCall

SpecResolve == InitResolve /\ [][NextResolve]_vars

(***************************************************************************)
(* Properties                                                              *)
(***************************************************************************)
\* the calls of process_file that come after the cover check
AfterCheck == {"run_fpcalc", "lookup_acoustid", "get_cover_art_url",
               "download_image", "embed_cover_art"}
NetworkCalls == {"lookup_acoustid", "get_cover_art_url", "download_image"}

Returned == pc \in {"sysexit", "exit"}

HasLog(rec) == \E n \in 1..Len(logged) : logged[n] = rec

\* C1: when the cover check finds an attached picture, the run calls none of
\* run_fpcalc, lookup_acoustid, get_cover_art_url, download_image and
\* embed_cover_art, and process_file returns True.
C1_CoverPresentSkips ==
    (env.step = "has_cover_art" /\ env.kind = "attached") =>
        /\ Returned
        /\ retval = "true"
        /\ called \cap AfterCheck = {}
        /\ file = file0

C1_Witness ==
    /\ pc = "exit"
    /\ env.step = "has_cover_art"
    /\ env.kind = "attached"
    /\ exitCode = 0

\* C2: when fpcalc exits non-zero, is not installed, or prints something
\* that is no JSON, process_file returns False and no network call is made.
C2_FpcalcFailureFails ==
    (env.step = "run_fpcalc" /\ env.kind \in {"exit_fail", "not_found", "bad_json"}) =>
        /\ Returned
        /\ retval = "false"
        /\ called \cap NetworkCalls = {}

C2_Witness ==
    /\ pc = "exit"
    /\ env.step = "run_fpcalc"
    /\ env.kind = "bad_json"
    /\ retval = "false"
    /\ exitCode = 1

\* the two aborts: no API key, or the file does not exist
KeyMissing == ~apiKey
FileMissing == apiKey /\ argv = "file" /\ file.kind = "missing"

AbortsClean ==
    (KeyMissing \/ FileMissing) =>
        /\ exitCode = 1
        /\ called = {}
        /\ retval = "none"
        /\ file = file0

\* C3 as stated: the exit code is 0 exactly when process_file returned True
\* and 1 in every other case, and the two aborts come before any pipeline
\* step.
C3_ExitCodeAsStated ==
    pc = "exit" =>
        /\ exitCode = 0 <=> retval = "true"
        /\ exitCode \in {0, 1}
        /\ AbortsClean

\* C3, amended: the same for every command line that names one file (and for
\* every command line when the API key is missing); otherwise argparse ends
\* the process, with 0 for -h and 2 for a usage error, before any step.
C3_ExitCode ==
    pc = "exit" =>
        /\ (KeyMissing \/ argv = "file") =>
                /\ exitCode = 0 <=> retval = "true"
                /\ exitCode \in {0, 1}
                /\ AbortsClean
        /\ (apiKey /\ argv # "file") =>
                /\ exitCode = (IF argv = "help" THEN 0 ELSE 2)
                /\ called = {}
                /\ retval = "none"

C3_Witness ==
    /\ pc = "exit"
    /\ FileMissing
    /\ exitCode = 1

\* C4: get_cover_art_url returns the URL of the first image flagged front if
\* there is one, else the URL of the first image if there is one, else None.
C4_FrontElseFirst ==
    (pc = "resolve_ret" /\ artResp.kind = "json") =>
        LET im == artResp.images
            fronts == {n \in 1..Len(im) : im[n].front}
        IN  /\ fronts # {} =>
                \E n \in fronts : /\ \A m \in fronts : n <= m
                                  /\ cover_url = im[n].image
            /\ (fronts = {} /\ Len(im) > 0) => cover_url = im[1].image
            /\ Len(im) = 0 => cover_url = None

C4_Witness ==
    /\ pc = "resolve_ret"
    /\ artResp.kind = "json"
    /\ Len(artResp.images) >= 2
    /\ \A n \in 1..Len(artResp.images) : ~artResp.images[n].front
    /\ artResp.images[1].image = "U1"
    /\ artResp.images[2].image = "U2"
    /\ cover_url = "U1"

\* C5 as stated: an embed_cover_art call on an MP4, FLAC or ID3 file, with
\* any pictures or none and with or without a tag container, returns True
\* and leaves exactly one picture: the payload, as image/jpeg.
C5_EmbedRoundTrip ==
    (/\ env.step = "embed_cover_art"
     /\ env.kind = "save_ok"
     /\ file0.kind \in SupportedKinds) =>
        /\ retval = "true"
        /\ Len(file.pics) = 1
        /\ file.pics[1].data = image_data
        /\ file.pics[1].mime = "image/jpeg"

\* C6: on a response whose status is not "ok", lookup_acoustid returns no
\* results and logs the service's error message, and process_file returns
\* False without resolving, downloading or embedding anything.
C6_StatusNotOk ==
    (env.step = "lookup_acoustid" /\ env.kind = "json" /\ env.status # "ok") =>
        /\ results = <<>>
        /\ env.error \notin {"missing", "no_message"} =>
                HasLog(Err("AcoustID error", env.error))
        /\ \E n \in 1..Len(logged) :
                logged[n].level = "ERROR" /\ logged[n].msg = "AcoustID error"
        /\ Returned
        /\ retval = "false"
        /\ called \cap {"get_cover_art_url", "download_image", "embed_cover_art"} = {}

C6_Witness ==
    /\ pc = "exit"
    /\ env.step = "lookup_acoustid"
    /\ env.status = "error"
    /\ env.error = "m1"
    /\ exitCode = 1

\* The candidate releases of a response, said without the loops: the
\* positions <<i, j, k>> of the releases that have an id.
CandidateSet(rs) ==
    UNION {UNION {{<<i, j, k>> :
                        k \in {k \in 1..Len(rs[i].recordings[j].releases) :
                                    rs[i].recordings[j].releases[k].id # NoId}} :
                    j \in 1..Len(rs[i].recordings)} :
            i \in {i \in 1..Len(rs) : rs[i].shape = "object"}}

\* result, then recording, then release
Before(p, q) ==
    \/ p[1] < q[1]
    \/ (p[1] = q[1] /\ p[2] < q[2])
    \/ (p[1] = q[1] /\ p[2] = q[2] /\ p[3] < q[3])

\* a result that is no object lies after position p and not after q
JunkBetween(rs, p, q) ==
    \E i \in 1..Len(rs) : rs[i].shape = "junk" /\ p[1] < i /\ i < q[1]

JunkAfter(rs, p) ==
    \E i \in 1..Len(rs) : rs[i].shape = "junk" /\ p[1] < i

\* C7: when the Cover Art Archive answers 404 for a release,
\* get_cover_art_url returns None and logs a warning and no error, nothing
\* is downloaded or embedded for that release, and process_file goes on
\* with the next candidate release in iteration order (or, when there is
\* none, ends the loops) instead of ending the run there.
C7_Step ==
    (pc = "resolve" /\ env'.step = "get_cover_art_url" /\ env'.kind = "http404") =>
        LET later == {c \in CandidateSet(results) : Before(release, c)}
        IN  /\ cover_url' = None
            /\ \E n \in 1..Len(logged') :
                    /\ logged'[n].level = "WARNING"
                    /\ logged'[n].msg = "No cover art found for release"
            /\ \A n \in 1..Len(logged') : logged'[n].level # "ERROR"
            /\ file' = file
            /\ image_data' = image_data
            /\ called' = called \cup {"get_cover_art_url"}
            /\ embedOKs' = embedOKs
            /\ \A c \in later :
                    (/\ \A d \in later : c = d \/ Before(c, d)
                     /\ ~JunkBetween(results, release, c)) =>
                        /\ pc' = "resolve"
                        /\ release' = c
                        /\ retval' = "none"
            /\ (later = {} /\ ~JunkAfter(results, release)) => retval' = "false"

\* C7: every step in which get_cover_art_url gets a 404 is such a step:
\* None, a warning, nothing downloaded or embedded, on to the next candidate.
C7_NotFoundContinues == [][C7_Step]_vars

C7_Witness ==
    /\ pc = "resolve"
    /\ env.step = "get_cover_art_url"
    /\ env.kind = "http404"
    /\ Len(tried) = 1
    /\ release # tried[1]

\* C8 as stated: no exception leaves process_file, whatever the external
\* processes and services answer.
C8_NothingPropagates == retval # "raised"

\* C9: the candidates are tried in the order result, recording, release,
\* each with ResolveArt, then FetchImage, then EmbedArt; a candidate is
\* tried only after every earlier one has failed; the run returns True at
\* the first embed that succeeds and tries nothing after it; it returns
\* False exactly when the loops end without an embed that succeeded.
C9_FallbackScan ==
    LET cands == CandidateSet(results)
    IN  \* iteration order, no candidate skipped
        /\ \A n \in 1..Len(tried) :
                /\ tried[n] \in cands
                /\ \A c \in cands :
                        Before(c, tried[n]) <=> \E m \in 1..(n - 1) : tried[m] = c
        \* resolve, then fetch, then embed, for the same release
        /\ pc = "download" =>
                /\ tried # <<>> /\ tried[Len(tried)] = release
                /\ cover_url # None
        /\ pc = "embed" =>
                /\ tried # <<>> /\ tried[Len(tried)] = release
                /\ cover_url # None
                /\ image_data \notin {None, ""}
        \* the next candidate only after the one before has failed
        /\ (pc = "resolve" /\ tried # <<>>) =>
                /\ embedOKs = 0
                /\ Before(tried[Len(tried)], release)
                /\ \/ env.step = "get_cover_art_url" /\ cover_url = None
                   \/ env.step = "download_image" /\ image_data \in {None, ""}
                   \/ env.step = "embed_cover_art" /\ file = file0
        \* the first embed that succeeds ends the run
        /\ embedOKs <= 1
        /\ embedOKs = 1 =>
                /\ Returned
                /\ retval = "true"
                /\ env.step = "embed_cover_art"
                /\ tried[Len(tried)] = release
        /\ (retval = "true" /\ results # <<>>) => embedOKs = 1
        \* False exactly when the candidates are exhausted
        /\ (retval = "false" /\ results # <<>>) =>
                /\ embedOKs = 0
                /\ \A c \in cands : \E n \in 1..Len(tried) : tried[n] = c
        /\ (Returned /\ results # <<>> /\ embedOKs = 0 /\ retval # "raised") =>
                retval = "false"

C9_Witness ==
    /\ pc = "exit"
    /\ retval = "true"
    /\ Len(tried) = 2
    /\ tried[1][2] # tried[2][2]
    /\ Cardinality(CandidateSet(results)) = 3

====
